---- MODULE Spec2Model ----
(***************************************************************************)
(* Model of the Image Tool block (src/src/index.ts): the block data, the   *)
(* tune get/set logic, the upload reconciliation callbacks and the paste   *)
(* handler.  The Ui and Uploader modules (ui.ts, uploader.ts) are not part *)
(* of the available sources; they are modelled from their contract in      *)
(* spec.md (sections 4.2 and 4.3).                                         *)
(*                                                                         *)
(* JavaScript values: strings are TLA+ strings, `undefined` is the string  *)
(* "undefined", an optional object is a sequence of length 0 or 1.         *)
(***************************************************************************)
EXTENDS Integers, Sequences, FiniteSets, TLC

\* ---------------------------------------------------------------- bounds
\* Uploads that one block instance may issue (pending blob fetches count).
MaxUploads == 2

\* The same, in the specification that also calls setTune directly.
MaxTuneUploads == 1

\* ------------------------------------------------------- JavaScript values
undefined == "undefined"

None == <<>>

Some(v) == <<v>>

\* !!s for a string-or-undefined value
Truthy(s) == s # undefined /\ s # ""

\* obj[key] = value: the property is added when the object lacks it
Put(obj, key, value) ==
    [k \in DOMAIN obj \cup {key} |-> IF k = key THEN value ELSE obj[k]]

\* String.prototype.startsWith, also /^prefix/.test(s)
startsWith(s, prefix) ==
    Len(s) >= Len(prefix) /\ SubSeq(s, 1, Len(prefix)) = prefix

\* String.prototype.replace(pattern, by) with a string pattern: the first
\* occurrence only.
replace(s, pattern, by) ==
    LET hits == {i \in 1..(Len(s) - Len(pattern) + 1) :
                     SubSeq(s, i, i + Len(pattern) - 1) = pattern}
    IN IF hits = {} THEN s
       ELSE LET i == CHOOSE j \in hits : \A k \in hits : j <= k
            IN SubSeq(s, 1, i - 1) \o by \o SubSeq(s, i + Len(pattern), Len(s))

\* ------------------------------------------------------------ static data
\* static get tunes(): the built-in tunes, in order
tunes == <<"withBorder", "size30", "size50", "size70", "size100">>

TuneNames == {tunes[i] : i \in DOMAIN tunes}

SizeTunes == {n \in TuneNames : startsWith(n, "size")}

SizeOptions == {"30", "50", "70", "100"}

\* config.actions: the tunes the caller adds, one with an action callback
\* and one without
actions ==
    <<[name |-> "rotate", action |-> TRUE], [name |-> "stretched", action |-> FALSE]>>

\* ----------------------------------------------------------------- inputs
Urls == {"http://x/y.png", "http://x/z.png"}

\* file references as they appear in saved data and in upload responses
FileRefs == {[url |-> u] : u \in Urls \cup {""}}

\* data handed to the constructor: {} for a new block, or saved block data
SavedData ==
    [caption : {""}, withBorder : BOOLEAN, size : SizeOptions \cup {undefined},
     file : {None} \cup {Some(f) : f \in FileRefs}]

\* UploadResponseFormat: { success, file? }
Responses ==
    [success : {TRUE}, file : {None} \cup {Some(f) : f \in FileRefs}]
        \cup [success : {FALSE}, file : {None, Some([url |-> "http://x/y.png"])}]

\* data handed to validate()
ValidateData ==
    [caption : {""}, withBorder : {FALSE}, size : {undefined},
     file : {[url |-> u] : u \in {"http://x/y.png", "", undefined}}]

\* paste events: type and payload (image.src, the url, or the file)
PasteEvents ==
    {[type |-> "tag", data |-> "blob:http://x/1"],
     [type |-> "tag", data |-> "http://x/y.png"],
     [type |-> "tag", data |-> "http://x/blob:1"],
     [type |-> "pattern", data |-> "http://x/z.png"],
     [type |-> "file", data |-> "file.png"],
     [type |-> "drop", data |-> "file.png"]}

\* ------------------------------------------------------------------ state
VARIABLES
    _data,        \* private _data: ImageToolData
    isDataInit,   \* private isDataInit
    ui,           \* the rendering surface: applied tunes, image, status
    inflight,     \* uploads issued to the Uploader and not yet answered
    issued,       \* number of uploads this block instance has issued
    fetching,     \* onPaste calls suspended at await fetch(image.src)
    received,     \* requests answered with a file reference, in order of arrival
    calls,        \* collaborator calls made by the last operation, in order
    op            \* the last operation and its arguments

vars == <<_data, isDataInit, ui, inflight, issued, fetching, received, calls, op>>

\* The instance as one value, threaded through the methods below.
This ==
    [_data |-> _data, isDataInit |-> isDataInit, ui |-> ui,
     inflight |-> inflight, issued |-> issued, fetching |-> fetching,
     calls |-> <<>>]

Commit(m) ==
    /\ _data' = m._data
    /\ isDataInit' = m.isDataInit
    /\ ui' = m.ui
    /\ inflight' = m.inflight
    /\ issued' = m.issued
    /\ fetching' = m.fetching
    /\ calls' = m.calls

Call(fn, arg, on) == [fn |-> fn, arg |-> arg, on |-> on]

\* ------------------------------------------- rendering surface (spec 4.3)
applyTune(m, tuneName, status) ==
    [m EXCEPT !.ui.applied = Put(@, tuneName, status),
              !.calls = Append(@, Call("ui.applyTune", tuneName, status))]

fillImage(m, url) ==
    [m EXCEPT !.ui.image = url, !.ui.status = "filled",
              !.calls = Append(@, Call("ui.fillImage", url, TRUE))]

showPreloader(m, src) ==
    [m EXCEPT !.ui.status = "uploading",
              !.calls = Append(@, Call("ui.showPreloader", src, TRUE))]

hidePreloader(m) ==
    [m EXCEPT !.ui.status = "empty",
              !.calls = Append(@, Call("ui.hidePreloader", "", TRUE))]

\* api.notifier.show({ style: "error" })
notifierShow(m) ==
    [m EXCEPT !.calls = Append(@, Call("notifier.show", "error", TRUE))]

\* ------------------------------------------------------ tunes (index.ts)
\* isTuneActive without the comparison of the size with the name
isTuneActiveAnySize(d, name) ==
    IF ~startsWith(name, "size") THEN (name \in DOMAIN d /\ d[name])
    ELSE d.size # undefined

isTuneActive(d, name) ==
    IF ~startsWith(name, "size") THEN (name \in DOMAIN d /\ d[name])
    ELSE IF d.size = undefined THEN FALSE
    ELSE "size" \o d.size = name

\* setTune without its exclusivity loop
deactivateNone(m, tuneName, i) == m

\* the for..of loop of setTune, from the i-th built-in tune on
RECURSIVE deactivateOthers(_, _, _)
deactivateOthers(m, tuneName, i) ==
    IF i > Len(tunes) THEN m
    ELSE LET item == tunes[i]
             m1 == IF /\ startsWith(item, "size")
                      /\ item # tuneName
                      /\ isTuneActive(m._data, item)
                   THEN applyTune(m, item, FALSE)
                   ELSE m
         IN deactivateOthers(m1, tuneName, i + 1)

\* setTune storing the tune name as the size, without stripping "size"
setTuneKeepName(m, tuneName, value) ==
    LET m1 == IF startsWith(tuneName, "size")
              THEN IF ~m.isDataInit THEN m
                   ELSE IF value
                        THEN [deactivateOthers(m, tuneName, 1)
                                 EXCEPT !._data.size = tuneName]
                        ELSE [m EXCEPT !._data.size = undefined]
              ELSE [m EXCEPT !._data = Put(@, tuneName, value)]
    IN applyTune(m1, tuneName, value)

\* setTune returning at once for a size tune while the data is not initialized
setTuneSkipInit(m, tuneName, value) ==
    IF startsWith(tuneName, "size") /\ ~m.isDataInit THEN m
    ELSE LET m1 == IF startsWith(tuneName, "size")
                   THEN IF value
                        THEN [deactivateOthers(m, tuneName, 1)
                                 EXCEPT !._data.size = replace(tuneName, "size", "")]
                        ELSE [m EXCEPT !._data.size = undefined]
                   ELSE [m EXCEPT !._data = Put(@, tuneName, value)]
         IN applyTune(m1, tuneName, value)

setTune(m, tuneName, value) ==
    LET m1 == IF startsWith(tuneName, "size")
              THEN IF ~m.isDataInit THEN m
                   ELSE IF value
                        THEN [deactivateOthers(m, tuneName, 1)
                                 EXCEPT !._data.size = replace(tuneName, "size", "")]
                        ELSE [m EXCEPT !._data.size = undefined]
              ELSE [m EXCEPT !._data = Put(@, tuneName, value)]
    IN applyTune(m1, tuneName, value)

tuneToggled(m, tuneName) ==
    setTune(m, tuneName, ~isTuneActive(m._data, tuneName))

\* --------------------------------------------------------- block settings
\* the built-in tunes as descriptors: they carry no action callback
builtin == [i \in DOMAIN tunes |-> [name |-> tunes[i], action |-> FALSE]]

\* onActivate calling the toggle for every entry, custom callback or not
onActivateAlwaysToggle(m, tune) == tuneToggled(m, tune.name)

\* the onActivate handler of the menu entry of `tune`
onActivate(m, tune) ==
    IF tune.action
    THEN [m EXCEPT !.calls = Append(@, Call("action", tune.name, TRUE))]
    ELSE tuneToggled(m, tune.name)

renderSettings(m) ==
    LET all == builtin \o actions
    IN [i \in DOMAIN all |->
           [name |-> all[i].name,
            isActive |-> isTuneActive(m._data, all[i].name),
            tune |-> all[i]]]

\* ------------------------------------------------- data and image setters
setImage(m, file) ==
    LET m1 == [m EXCEPT !._data.file = IF file # None THEN file[1] ELSE [url |-> ""]]
    IN IF file # None /\ Truthy(file[1].url) THEN fillImage(m1, file[1].url) ELSE m1

\* the forEach of `set data`, from the i-th built-in tune on
RECURSIVE restoreTunes(_, _)
restoreTunes(m, i) ==
    IF i > Len(tunes) THEN m
    ELSE restoreTunes(setTune(m, tunes[i], isTuneActive(m._data, tunes[i])), i + 1)

\* `set data` raising the initialized flag before it restores the tunes
setDataFlagFirst(m, data) ==
    LET m1 == setImage(m, data.file)
        m2 == [m1 EXCEPT !._data.size = data.size, !.isDataInit = TRUE]
    IN restoreTunes(m2, 1)

setData(m, data) ==
    LET m1 == setImage(m, data.file)
        m2 == [m1 EXCEPT !._data.size = data.size]
        m3 == restoreTunes(m2, 1)
    IN [m3 EXCEPT !.isDataInit = TRUE]

\* new ImageTool({ data, ... })
constructor(data) ==
    LET m0 == [_data |-> [caption |-> "", withBorder |-> FALSE,
                          size |-> undefined, file |-> [url |-> ""]],
               isDataInit |-> FALSE,
               ui |-> [applied |-> [n \in TuneNames |-> FALSE],
                       image |-> undefined, status |-> "empty"],
               inflight |-> {}, issued |-> 0, fetching |-> <<>>, calls |-> <<>>]
    IN setData(m0, data)

\* validate looking at the block's own data instead of its argument
validateThis(savedData) == Truthy(_data.file.url)

validate(savedData) == Truthy(savedData.file.url)

save(m) == m._data

\* --------------------------------------------------- upload reconciliation
uploadingFailed(m, errorText) == hidePreloader(notifierShow(m))

\* onUpload assigning the whole data (set data) instead of the image
onUploadAsData(m, response) ==
    IF response.success /\ response.file # None
    THEN setData(m, [file |-> response.file, size |-> undefined])
    ELSE uploadingFailed(m, "incorrect response")

\* onUpload without the test of the success flag
onUploadAnyFile(m, response) ==
    IF response.file # None
    THEN setImage(m, response.file)
    ELSE uploadingFailed(m, "incorrect response")

\* onUpload that keeps the image the block already has
onUploadKeepFirst(m, response) ==
    IF response.success /\ response.file # None
    THEN IF Truthy(m._data.file.url) THEN m ELSE setImage(m, response.file)
    ELSE uploadingFailed(m, "incorrect response")

onUpload(m, response) ==
    IF response.success /\ response.file # None
    THEN setImage(m, response.file)
    ELSE uploadingFailed(m, "incorrect response")

\* ------------------------------------------------- Uploader (spec 4.2)
request(m, via) ==
    [m EXCEPT !.issued = @ + 1,
              !.inflight = @ \cup {[id |-> m.issued + 1, via |-> via]}]

uploadByUrl(m, url) ==
    request([m EXCEPT !.calls = Append(@, Call("uploader.uploadByUrl", url, TRUE))],
            "uploadByUrl")

\* the onPreview callbacks handed to the Uploader
onPreview(m, src) == showPreloader(m, src)

uploadByFile(m, file) ==
    onPreview(request([m EXCEPT !.calls =
                           Append(@, Call("uploader.uploadByFile", file, TRUE))],
                      "uploadByFile"),
              file)

uploadSelectedFile(m, file) ==
    onPreview(request([m EXCEPT !.calls =
                           Append(@, Call("uploader.uploadSelectedFile", file, TRUE))],
                      "uploadSelectedFile"),
              file)

\* ------------------------------------------------------- upload entry points
uploadFile(m, file) == uploadByFile(m, file)

\* uploadUrl starting the upload before it shows the preloader
uploadUrlLate(m, url) == showPreloader(uploadByUrl(m, url), url)

uploadUrl(m, url) == uploadByUrl(showPreloader(m, url), url)

onSelectFile(m, file) == uploadSelectedFile(m, file)

\* ------------------------------------------------------------ paste handler
\* onPaste without the branch for blob: sources
onPasteTagAsUrl(m, event) ==
    CASE event.type = "tag" -> uploadUrl(m, event.data)
      [] event.type = "pattern" -> uploadUrl(m, event.data)
      [] event.type = "file" -> uploadFile(m, event.data)
      [] OTHER -> m

\* onPaste up to its first suspension point: a blob: tag stops at
\* await fetch(image.src), every other event runs to completion.
onPaste(m, event) ==
    CASE event.type = "tag" ->
             IF startsWith(event.data, "blob:")
             THEN [m EXCEPT !.fetching = Append(@, event.data)]
             ELSE uploadUrl(m, event.data)
      [] event.type = "pattern" -> uploadUrl(m, event.data)
      [] event.type = "file" -> uploadFile(m, event.data)
      [] OTHER -> m

\* onPaste resumed with the fetched blob of the i-th pending fetch
onPasteBlob(m, i) ==
    uploadFile([m EXCEPT !.fetching = SubSeq(@, 1, i - 1) \o SubSeq(@, i + 1, Len(@))],
               m.fetching[i])

\* the saved form of block data, as the host hands it back to a constructor
Saved(d) == [d EXCEPT !.file = Some(d.file)]

\* ------------------------------------------------------------------ Init
Init ==
    \E data \in SavedData :
        LET m == constructor(data)
        IN /\ _data = m._data
           /\ isDataInit = m.isDataInit
           /\ ui = m.ui
           /\ inflight = m.inflight
           /\ issued = m.issued
           /\ calls = m.calls
           /\ fetching = m.fetching
           /\ received = <<>>
           /\ op = [name |-> "constructor", data |-> data, restored |-> FALSE]

\* --------------------------------------------------------------- actions
SetTune ==
    \E n \in TuneNames, v \in BOOLEAN :
        /\ Commit(setTune(This, n, v))
        /\ op' = [name |-> "setTune", tune |-> n, value |-> v]
        /\ UNCHANGED received

TuneToggled ==
    \E n \in TuneNames :
        /\ Commit(tuneToggled(This, n))
        /\ op' = [name |-> "tuneToggled", tune |-> n]
        /\ UNCHANGED received

OnUpload ==
    \E req \in inflight, response \in Responses :
        /\ Commit(onUpload([This EXCEPT !.inflight = @ \ {req}], response))
        /\ received' = IF response.success /\ response.file # None
                       THEN Append(received, [id |-> req.id, file |-> response.file[1]])
                       ELSE received
        /\ op' = [name |-> "onUpload", id |-> req.id, via |-> req.via,
                  response |-> response]

OnError ==
    \E req \in inflight :
        /\ Commit(uploadingFailed([This EXCEPT !.inflight = @ \ {req}], "error"))
        /\ UNCHANGED received
        /\ op' = [name |-> "onError", id |-> req.id, via |-> req.via]

Paste(max) ==
    \E event \in PasteEvents :
        /\ issued + Len(fetching) < max
        /\ Commit(onPaste(This, event))
        /\ op' = [name |-> "onPaste", event |-> event]
        /\ UNCHANGED received

FetchResolved ==
    \E i \in DOMAIN fetching :
        /\ Commit(onPasteBlob(This, i))
        /\ op' = [name |-> "onPasteBlob", src |-> fetching[i]]
        /\ UNCHANGED received

\* fetch(image.src) rejects: onPaste rejects without reaching uploadFile
FetchRejected ==
    \E i \in DOMAIN fetching :
        /\ Commit([This EXCEPT !.fetching = SubSeq(@, 1, i - 1) \o SubSeq(@, i + 1, Len(@))])
        /\ op' = [name |-> "onPasteRejected", src |-> fetching[i]]
        /\ UNCHANGED received

SelectFile(max) ==
    /\ issued + Len(fetching) < max
    /\ Commit(onSelectFile(This, "file.png"))
    /\ op' = [name |-> "onSelectFile"]
    /\ UNCHANGED received

Validate ==
    \E savedData \in ValidateData \cup {save(This)} :
        /\ op' = [name |-> "validate", data |-> savedData, result |-> validate(savedData)]
        /\ calls' = <<>>
        /\ UNCHANGED <<_data, isDataInit, ui, inflight, issued, fetching, received>>

Save ==
    /\ op' = [name |-> "save", result |-> save(This)]
    /\ calls' = <<>>
    /\ UNCHANGED <<_data, isDataInit, ui, inflight, issued, fetching, received>>

\* the host builds a new block from what save() returned
Restore ==
    /\ Commit(constructor(Saved(save(This))))
    /\ received' = <<>>
    /\ op' = [name |-> "constructor", data |-> Saved(save(This)), restored |-> TRUE]

\* the user activates an entry of the block settings menu
Activate ==
    \E i \in DOMAIN renderSettings(This) :
        /\ Commit(onActivate(This, renderSettings(This)[i].tune))
        /\ op' = [name |-> "onActivate", tune |-> renderSettings(This)[i].tune]
        /\ UNCHANGED received

OnPaste == Paste(MaxUploads)

OnSelectFile == SelectFile(MaxUploads)

OnSelectFileOnce == SelectFile(MaxTuneUploads)

\* Uploads, pastes and the tune menu on one block.
Next ==
    \/ TuneToggled
    \/ OnUpload
    \/ OnError
    \/ OnPaste
    \/ FetchResolved
    \/ FetchRejected
    \/ OnSelectFile
    \/ Restore

Spec == Init /\ [][Next]_vars

\* The public methods called in any order, with uploads from the file picker.
NextTunes ==
    \/ SetTune
    \/ TuneToggled
    \/ Validate
    \/ Save
    \/ Restore
    \/ OnSelectFileOnce
    \/ OnUpload
    \/ OnError

SpecTunes == Init /\ [][NextTunes]_vars

\* The block settings menu with the caller's actions, and restores.
NextSettings ==
    \/ Activate
    \/ Restore

SpecSettings == Init /\ [][NextSettings]_vars
\* ================================================================ claims
ActiveSizes == {n \in SizeTunes : isTuneActive(_data, n)}

Count(fn) == Cardinality({i \in DOMAIN calls : calls[i].fn = fn})

\* C1: in every reachable state at most one of size30, size50, size70,
\* size100 satisfies isTuneActive.
C1_AtMostOneSizeActive == Cardinality(ActiveSizes) <= 1

\* setTune("size30", true) has replaced an active size50, after an upload
\* result has arrived.
C1_Witness ==
    /\ op.name = "setTune" /\ op.tune = "size30" /\ op.value
    /\ calls[1] = Call("ui.applyTune", "size50", FALSE)
    /\ ActiveSizes = {"size30"}
    /\ received # <<>>

\* C2: with sizeY active, setTune(sizeX, true), X # Y, makes sizeY inactive
\* and sizeX active, un-applies sizeY on the surface before applying sizeX,
\* and leaves withBorder and file unchanged.
C2_SizeSwitch ==
    [][\A x, y \in SizeTunes :
          (/\ x # y
           /\ isDataInit
           /\ isTuneActive(_data, y)
           /\ op'.name = "setTune" /\ op'.tune = x /\ op'.value)
          => /\ ~isTuneActive(_data', y)
             /\ isTuneActive(_data', x)
             /\ calls' = <<Call("ui.applyTune", y, FALSE), Call("ui.applyTune", x, TRUE)>>
             /\ _data'.withBorder = _data.withBorder
             /\ _data'.file = _data.file]_vars

\* size70 has been switched to size100 on a bordered block holding an image.
C2_Witness ==
    /\ op.name = "setTune" /\ op.tune = "size100" /\ op.value
    /\ calls = <<Call("ui.applyTune", "size70", FALSE),
                 Call("ui.applyTune", "size100", TRUE)>>
    /\ _data.withBorder
    /\ _data.file.url = "http://x/z.png"

\* C3: setTune(n, true) on a constructed block is followed by
\* isTuneActive(n) = true, for every built-in tune n.
C3_SetThenActive ==
    (op.name = "setTune" /\ op.value) => isTuneActive(_data, op.tune)

\* setTune("size100", true) has acted on a block whose size was "30".
C3_Witness ==
    /\ op.name = "setTune" /\ op.tune = "size100" /\ op.value
    /\ calls[1] = Call("ui.applyTune", "size30", FALSE)
    /\ _data.size = "100"

\* C4: a block constructed from save() of another block saves data equal to
\* it in every field (file, size, withBorder, caption).
C4_RoundTrip ==
    (op.name = "constructor" /\ op.restored) => Saved(save(This)) = op.data
\* an upload outcome that the code treats as a failure
Failed(o) ==
    \/ o.name = "onError"
    \/ o.name = "onUpload" /\ ~(o.response.success /\ o.response.file # None)

\* a successful response whose file reference has a non-empty url
Filled(o) ==
    /\ o.name = "onUpload"
    /\ o.response.success
    /\ o.response.file # None
    /\ o.response.file[1].url # ""

\* C5: onUpload with success true and a file reference with a non-empty url
\* u sets data.file.url to u, tells the surface to display u, and leaves
\* withBorder and size unchanged.
C5_UploadSetsFile ==
    [][Filled(op')
          => /\ _data'.file.url = op'.response.file[1].url
             /\ calls' = <<Call("ui.fillImage", op'.response.file[1].url, TRUE)>>
             /\ _data'.withBorder = _data.withBorder
             /\ _data'.size = _data.size]_vars

\* an upload has filled a bordered block of size 50.
C5_Witness ==
    /\ Filled(op)
    /\ _data.file.url = "http://x/y.png"
    /\ _data.withBorder
    /\ _data.size = "50"
    /\ ui.image = "http://x/y.png"

\* C6: every failed upload outcome (transport error, success false, success
\* true without a file reference) leaves the block data unchanged, produces
\* exactly one error notification and hides the progress indicator.
C6_FailureKeepsData ==
    [][Failed(op')
          => /\ _data' = _data
             /\ calls' = <<Call("notifier.show", "error", TRUE),
                           Call("ui.hidePreloader", "", TRUE)>>]_vars

\* a response with success false and a file reference has been handled by a
\* block that holds another image.
C6_Witness ==
    /\ op.name = "onUpload"
    /\ ~op.response.success
    /\ op.response.file = Some([url |-> "http://x/y.png"])
    /\ _data.file.url = "http://x/z.png"
    /\ Count("notifier.show") = 1

\* C7: validate(data) is true iff data.file.url is non-empty, whatever the
\* block's own state, and changes nothing of the block.
C7_Validate ==
    [][op'.name = "validate"
          => /\ op'.result = (op'.data.file.url \notin {"", undefined})
             /\ UNCHANGED <<_data, isDataInit, ui, inflight, issued, fetching, received>>]_vars

\* a block holding an image has validated data without an image url.
C7_Witness ==
    /\ op.name = "validate"
    /\ op.data.file.url = ""
    /\ ~op.result
    /\ _data.file.url = "http://x/y.png"

\* the events onPaste routes to uploadUrl
UrlPath(event) ==
    \/ event.type = "pattern"
    \/ event.type = "tag" /\ ~startsWith(event.data, "blob:")

\* C8: a pattern event or a tag event with a non-blob src issues exactly one
\* uploadByUrl and no uploadByFile; a file event, or a tag event with a blob:
\* src once its blob is fetched, issues exactly one uploadByFile and no
\* uploadByUrl; any other event issues no upload.
C8_PasteDispatch ==
    /\ op.name = "onPaste" =>
         IF UrlPath(op.event)
         THEN /\ Count("uploader.uploadByUrl") = 1
              /\ Count("uploader.uploadByFile") = 0
              /\ \E i \in DOMAIN calls :
                     calls[i] = Call("uploader.uploadByUrl", op.event.data, TRUE)
         ELSE IF op.event.type = "file"
         THEN /\ Count("uploader.uploadByFile") = 1
              /\ Count("uploader.uploadByUrl") = 0
         ELSE /\ Count("uploader.uploadByFile") = 0
              /\ Count("uploader.uploadByUrl") = 0
    /\ op.name = "onPasteBlob" =>
         /\ Count("uploader.uploadByFile") = 1
         /\ Count("uploader.uploadByUrl") = 0
    /\ op.name \in {"onPaste", "onPasteBlob"} => Count("uploader.uploadSelectedFile") = 0

\* the blob of a pasted blob: tag has been fetched and uploaded as a file.
C8_Witness ==
    /\ op.name = "onPasteBlob"
    /\ op.src = "blob:http://x/1"
    /\ Count("uploader.uploadByFile") = 1
    /\ \E r \in inflight : r.via = "uploadByFile"

\* C9 as stated: on every paste path showPreloader is called before the
\* Uploader operation of that paste is invoked.
C9_PreloaderBeforeUpload ==
    op.name \in {"onPaste", "onPasteBlob"} =>
        \A i \in DOMAIN calls :
            startsWith(calls[i].fn, "uploader.") =>
                \E j \in 1..(i - 1) : calls[j].fn = "ui.showPreloader"

\* C9 amended: on the URL paths showPreloader(url) is called and then
\* uploadByUrl(url); on the file paths (raw file, fetched blob) the first
\* collaborator call is uploader.uploadByFile, so the preloader is shown only
\* from inside it.
C9_PreloaderOrder ==
    /\ (op.name = "onPaste" /\ UrlPath(op.event)) =>
         calls = <<Call("ui.showPreloader", op.event.data, TRUE),
                   Call("uploader.uploadByUrl", op.event.data, TRUE)>>
    /\ ((op.name = "onPaste" /\ op.event.type = "file") \/ op.name = "onPasteBlob") =>
         /\ calls # <<>>
         /\ calls[1].fn = "uploader.uploadByFile"

\* a pasted file: uploadByFile is invoked, then its preview shows the preloader.
C9_Witness ==
    /\ op.name = "onPaste"
    /\ op.event.type = "file"
    /\ calls = <<Call("uploader.uploadByFile", "file.png", TRUE),
                 Call("ui.showPreloader", "file.png", TRUE)>>

\* C10: the block's file is the file of the response delivered last,
\* whatever the order in which the uploads were issued.
C10_LastResponseWins ==
    received # <<>> => _data.file = received[Len(received)].file

\* upload 2 was answered first, then the stale answer of upload 1 replaced
\* its image.
C10_Witness ==
    /\ Len(received) = 2
    /\ received[1].id = 2
    /\ received[2].id = 1
    /\ received[1].file.url = "http://x/y.png"
    /\ received[2].file.url = "http://x/z.png"
    /\ _data.file.url = "http://x/z.png"
    /\ ui.image = "http://x/z.png"

\* C11: setTune(n, v) never changes data.file, and with an upload in flight
\* setTune(n, v) followed by the upload outcome r gives the same block data
\* as r followed by setTune(n, v), for every built-in tune n, value v and
\* outcome r (a response, or a transport error).
C11_TuneUploadCommute ==
    inflight # {} =>
        \A n \in TuneNames, v \in BOOLEAN :
            /\ save(setTune(This, n, v)).file = _data.file
            /\ \A r \in Responses :
                   save(onUpload(setTune(This, n, v), r))
                       = save(setTune(onUpload(This, r), n, v))
            /\ save(uploadingFailed(setTune(This, n, v), "error"))
                   = save(setTune(uploadingFailed(This, "error"), n, v))

\* setTune("size50", true) has acted on a block that holds an image while an
\* upload is in flight.
C11_Witness ==
    /\ inflight # {}
    /\ op.name = "setTune" /\ op.tune = "size50" /\ op.value
    /\ _data.size = "50"
    /\ _data.file.url = "http://x/y.png"

\* C12: the initialized flag is false during the data assignment of the
\* constructor and true in every state after it; while it is false setTune on
\* a size tune deactivates no other size tune and leaves data.size alone, so
\* data.size after construction is the saved size.
C12_InitFlag ==
    /\ isDataInit
    /\ op.name = "constructor" => _data.size = op.data.size
    /\ \A n \in SizeTunes, v \in BOOLEAN :
           LET m == setTune([This EXCEPT !.isDataInit = FALSE], n, v)
           IN /\ m._data = _data
              /\ m.calls = <<Call("ui.applyTune", n, v)>>

\* a block has been built from saved data of size "50", which it kept.
C12_Witness ==
    /\ op.name = "constructor"
    /\ op.data.size = "50"
    /\ _data.size = "50"
    /\ ui.applied["size50"]
    /\ isDataInit

IsApplyTune(c) == c.fn = "ui.applyTune"

\* C13: construction issues exactly one applyTune per built-in tune, in the
\* built-in order, each with the value of isTuneActive for it, so that right
\* after construction the surface's applied state of each built-in tune is
\* isTuneActive of that tune.
C13_RestoreApplies ==
    op.name = "constructor" =>
        /\ SelectSeq(calls, IsApplyTune)
               = [i \in 1..Len(tunes) |->
                      Call("ui.applyTune", tunes[i], isTuneActive(_data, tunes[i]))]
        /\ \A n \in TuneNames : ui.applied[n] = isTuneActive(_data, n)

\* a block built from saved data of size "70" with an image: the image is
\* filled, then the five tunes are applied.
C13_Witness ==
    /\ op.name = "constructor"
    /\ op.data.size = "70"
    /\ Len(calls) = 6
    /\ calls[1].fn = "ui.fillImage"
    /\ calls[5] = Call("ui.applyTune", "size70", TRUE)
    /\ ui.applied["size70"]

\* C14: renderSettings lists the five built-in tunes in their static order,
\* then the caller's actions in their order, each with isTuneActive of its
\* name; activating an entry with an action callback calls it once and
\* changes neither the block data nor the surface; activating any other entry
\* does exactly setTune(name, !isTuneActive(name)).
C14_Settings ==
    /\ [](LET rs == renderSettings(This)
          IN /\ Len(rs) = Len(tunes) + Len(actions)
             /\ \A i \in DOMAIN rs :
                    /\ rs[i].name = IF i <= Len(tunes) THEN tunes[i]
                                    ELSE actions[i - Len(tunes)].name
                    /\ rs[i].isActive = isTuneActive(_data, rs[i].name))
    /\ [][op'.name = "onActivate" =>
             IF op'.tune.action
             THEN /\ calls' = <<Call("action", op'.tune.name, TRUE)>>
                  /\ _data' = _data
                  /\ ui' = ui
             ELSE LET m == setTune(This, op'.tune.name,
                                   ~isTuneActive(_data, op'.tune.name))
                  IN /\ _data' = m._data
                     /\ ui' = m.ui
                     /\ calls' = m.calls]_vars

\* the caller's "rotate" action has been activated on a block of size "30"
\* whose "stretched" tune is on.
C14_Witness ==
    /\ op.name = "onActivate"
    /\ op.tune.name = "rotate"
    /\ calls = <<Call("action", "rotate", TRUE)>>
    /\ _data.size = "30"
    /\ "stretched" \in DOMAIN _data
    /\ _data.stretched

\* C15: in every state reached through built-in tune operations and upload
\* outcomes, save() returns data with the four fields of the block data,
\* file.url a string, withBorder a boolean and size unset or one of "30",
\* "50", "70", "100"; save() changes nothing.
C15_WellFormed ==
    /\ [](LET d == save(This)
          IN /\ DOMAIN d = {"caption", "withBorder", "size", "file"}
             /\ DOMAIN d.file = {"url"}
             /\ d.file.url # undefined
             /\ d.withBorder \in BOOLEAN
             /\ d.size \in SizeOptions \cup {undefined})
    /\ [][op'.name = "save" =>
             /\ op'.result = _data
             /\ UNCHANGED <<_data, isDataInit, ui, inflight, issued, fetching, received>>]_vars

\* save() has returned the data of a bordered block of size "100" with an
\* uploaded image.
C15_Witness ==
    /\ op.name = "save"
    /\ op.result.size = "100"
    /\ op.result.withBorder
    /\ op.result.file.url = "http://x/z.png"
    /\ received # <<>>

\* C16: after any sequence of setTune(n, v) calls on an initialized block the
\* state last applied to the surface equals isTuneActive for every built-in
\* tune; no size marker stays applied while data.size is unset.
C16_SurfaceMatchesData ==
    \A n \in TuneNames : ui.applied[n] = isTuneActive(_data, n)

\* C17: every response handled by onUpload resolves the progress indicator:
\* the surface receives fillImage or hidePreloader, also for a successful
\* response whose file reference has an empty url.
C17_ResponseResolvesPreloader ==
    op.name = "onUpload" => Count("ui.fillImage") + Count("ui.hidePreloader") >= 1

\* C18: the surface displays an image iff data.file.url is non-empty, and the
\* url last passed to it for display is data.file.url.
C18_DisplayMatchesData ==
    /\ (ui.image # undefined) <=> Truthy(_data.file.url)
    /\ Truthy(_data.file.url) => ui.image = _data.file.url

\* C19: with two URL uploads in flight the progress indicator stays shown
\* while one of them is unresolved: a failure outcome of one does not hide
\* it while the other is still in flight.
C19_PreloaderWhilePending ==
    (/\ issued = 2
     /\ received = <<>>
     /\ Failed(op)
     /\ op.via = "uploadByUrl"
     /\ \E r \in inflight : r.via = "uploadByUrl")
    => ui.status = "uploading"
====
